---- MODULE Spec2Model ----
(***************************************************************************)
(* Eventbrite pack for Coda: the paginated formulas.                       *)
(*                                                                         *)
(*   Drain*  SyncRegistrations, full drain with rate-limit retry           *)
(*           (src/coda-script.js:218-291)                                  *)
(*   List*   ListAttendeesForEvent, full drain in a do-while loop          *)
(*           (src/unnamed/part_000:404-440)                                *)
(*   Sync*   the sync formulas that fetch one page an invocation:          *)
(*           SyncRegistrations (src/unnamed/part_000:205-266, and          *)
(*           src/coda-script.js:454-508) and SyncEvents                    *)
(*           (src/coda-script.js:94-127, src/unnamed/part_000:155-185)     *)
(*                                                                         *)
(* One step of the model is the code a formula runs between two awaits.    *)
(* The Source API, and the host that re-invokes a sync formula with the    *)
(* continuation it returned, are the environment.                          *)
(***************************************************************************)
EXTENDS Integers, Sequences, FiniteSets, TLC

\* ------------------------------------------------------------------ bounds
MaxPages == 3
MaxItems == 2
MaxFetches == 7
MaxIdLen == 6
MaxNameLen == 2
MaxResumes == 1

\* ------------------------------------------------------- JavaScript values
Undefined == "<undefined>"
Null == "<null>"

\* ToBoolean of a string-or-absent value: undefined, null and "" are falsy.
Truthy(v) == v \notin {Undefined, Null, ""}

\* Not-a-number, as parseInt yields it.
NaN == -1

\* The continuation tokens the Source API issues: Tok(i) resumes at page i.
\* "t=3" holds a character that percent-encoding rewrites.
TokenTable == <<"t1", "t2", "t=3", "t4", "t5", "t6">>

Tok(i) == TokenTable[i]

encodeURIComponent(s) == IF s = "t=3" THEN "t%3D3" ELSE s

decodeURIComponent(s) == IF s = "t%3D3" THEN "t=3" ELSE s

\* ------------------------------------------------------------- Source API
\* An attendee item; n is its position in the whole listing.
Attendee(n) == [id |-> n]

NoPagination == [present |-> FALSE, has_more_items |-> FALSE, continuation |-> Undefined]

Pagination(hm, c) == [present |-> TRUE, has_more_items |-> hm, continuation |-> c]

NoItems == [kind |-> "missing", elems |-> <<>>]

NotAList == [kind |-> "object", elems |-> <<>>]

Items(s) == [kind |-> "array", elems |-> s]

\* Page i of a listing with K items a page.
PageItems(i, K) == [j \in 1..K |-> Attendee((i - 1) * K + j)]

PageBody(listing, items, pg) ==
    [attendees |-> IF listing = "attendees" THEN items ELSE NoItems,
     events |-> IF listing = "events" THEN items ELSE NoItems,
     pagination |-> pg,
     error_description |-> Undefined]

ErrorBody(desc) ==
    [attendees |-> NoItems, events |-> NoItems, pagination |-> NoPagination,
     error_description |-> desc]

\* A listing of N pages: pages 1..N-1 announce the next page's token, page N
\* carries the pagination metadata (hm, c).
SourceApi(N, K, hm, c) ==
    [i \in 1..N |-> [items |-> PageItems(i, K),
                     pagination |-> IF i < N THEN Pagination(TRUE, Tok(i + 1))
                                    ELSE Pagination(hm, c)]]

SourceApis ==
    { SourceApi(N, K, hm, c) :
        N \in 1..MaxPages, K \in 0..MaxItems, hm \in BOOLEAN,
        c \in {Undefined, ""} \cup {Tok(i) : i \in 2..MaxPages} }

\* Formula parameters are strings of characters.
Digits == {"0", "1", "2", "3", "4", "5", "6", "7", "8", "9"}

\* /^\d+$/.test(s)
TestNumeric(s) == s # <<>> /\ \A i \in 1..Len(s) : s[i] \in Digits

\* The greedy digit run of s that starts at position i.
DigitRun(s, i) ==
    LET stop == IF \E j \in i..Len(s) : s[j] \notin Digits
                THEN (CHOOSE j \in i..Len(s) :
                        s[j] \notin Digits /\ \A k \in i..(j - 1) : s[k] \in Digits) - 1
                ELSE Len(s)
    IN SubSeq(s, i, stop)

\* s.trim()
Trim(s) ==
    IF \A i \in 1..Len(s) : s[i] = " " THEN <<>>
    ELSE LET a == CHOOSE i \in 1..Len(s) : s[i] # " " /\ \A k \in 1..(i - 1) : s[k] = " "
             b == CHOOSE i \in 1..Len(s) : s[i] # " " /\ \A k \in (i + 1)..Len(s) : s[k] = " "
         IN SubSeq(s, a, b)

\* The resource the Source API holds.
ServedId == <<"1", "2", "3">>

Me == <<"m", "e">>

ResourceIds == {ServedId, <<>>}

\* The characters of the identifiers a user may type or paste: two digits
\* and the characters of "eid=".
IdChars == {"1", "2", "e", "i", "d", "="}

\* Every identifier of at most MaxIdLen characters.
Identifiers == UNION {[1..n -> IdChars] : n \in 0..MaxIdLen}

\* A profile field that is a string or is not there.
Absent == [present |-> FALSE, chars |-> <<>>]

Str(s) == [present |-> TRUE, chars |-> s]

\* The first and last names an attendee's profile may hold.
NameChars == {"A", "B", " "}

NameValues == {Absent} \cup {Str(s) : s \in UNION {[1..n -> NameChars] : n \in 0..MaxNameLen}}

\* An attendee with the profile names f and l.
NamedAttendee(n, f, l) == [id |-> n, profile |-> [first_name |-> f, last_name |-> l]]

\* The id an attendee item may carry: a string, or nothing.
ItemIds == {"a1", Undefined}

\* The creation timestamps an attendee item may carry: the same instant in
\* UTC and with an offset, a string that is no date, and nothing.
Timestamps == {"2024-01-02T03:04:05Z", "2024-01-02T04:04:05+01:00", "abc", Undefined}

\* An attendee as the Source API returns it.
FullAttendee(id, created) ==
    [id |-> id,
     profile |-> [first_name |-> Str(<<"A">>), last_name |-> Str(<<"B">>)],
     created |-> created]

\* The title an event may carry (none, empty, two titles) and its UTC
\* start and end as the Source API normalised them.
EventTitles == {Undefined, "", "Gala", "Expo"}

UtcTimes == {"2024-01-02T03:04:05Z", "2024-01-03T00:00:00Z"}

\* An event as the Source API returns it.
Event(id, text, start, end) ==
    [id |-> id, name |-> [text |-> text], start |-> [utc |-> start], end |-> [utc |-> end]]

\* The event lists of a page of 0..MaxItems items.
EventLists ==
    UNION {[1..n -> {Event("e1", t, a, b) : t \in EventTitles, a \in UtcTimes, b \in UtcTimes}] :
             n \in 0..MaxItems}

\* The attendee lists of a page of 1..MaxItems items.
AttendeeLists ==
    UNION {[1..n -> {FullAttendee(i, c) : i \in ItemIds, c \in Timestamps}] : n \in 1..MaxItems}

RetryAfterHeaders == {Undefined, "2", "abc"}

\* GET https://www.eventbriteapi.com/v3/<collection>/<id>/<listing>/<query>
Request(collection, id, listing, query) ==
    [collection |-> collection, id |-> id, listing |-> listing, query |-> query]

\* The query string of a request is kept as the pieces the code appended.
\* A URL's query starts at the first "?" and a parameter's value runs to the
\* next "&": everything after the first "?continuation=" is that value.
ContinuationParams(req) ==
    IF req.query = <<>> THEN <<>> ELSE <<Tail(req.query)>>

\* The page a request asks for: 1 without a continuation parameter, i for
\* the token of page i, 0 for a value that is no token the API issued.
RequestedPage(api, req) ==
    LET ps == ContinuationParams(req) IN
    IF ps = <<>> THEN 1
    ELSE IF Len(ps[1]) = 1
            /\ \E i \in 2..Len(api) : Tok(i) = decodeURIComponent(ps[1][1])
         THEN CHOOSE i \in 2..Len(api) : Tok(i) = decodeURIComponent(ps[1][1])
         ELSE 0

Response(status, retryAfter, body) ==
    [status |-> status, retryAfter |-> retryAfter, body |-> body]

\* The Source API's answer when it serves the request.
Served(api, req) ==
    LET i == RequestedPage(api, req) IN
    IF req.id \notin {ServedId, Me} THEN Response(404, Undefined, ErrorBody("NOT_FOUND"))
    ELSE IF i = 0 THEN Response(400, Undefined, ErrorBody("BAD_CONTINUATION"))
    ELSE Response(200, Undefined,
                  PageBody(req.listing, Items(api[i].items), api[i].pagination))

RateLimitedResponses ==
    { Response(429, h, ErrorBody(Undefined)) : h \in RetryAfterHeaders }

HardFailureResponses ==
    { Response(401, Undefined, ErrorBody("denied")), Response(500, Undefined, ErrorBody(Undefined)) }

\* Success-status answers that lack the pagination metadata or the item list.
MalformedResponses(req) ==
    { Response(200, Undefined, PageBody(req.listing, Items(<<>>), NoPagination)),
      Response(200, Undefined, PageBody(req.listing, NotAList, Pagination(FALSE, Undefined))) }

\* status 0: the fetch itself rejected (no response).
TransportError == Response(0, Undefined, ErrorBody(Undefined))

Responses(api, req) ==
    {Served(api, req)} \cup RateLimitedResponses \cup HardFailureResponses
        \cup MalformedResponses(req)

\* ------------------------------------------------------------------ state
VARIABLES
    api,           \* the Source API's listing
    formula,       \* the formula that is running
    parameter,     \* the parameter the host passes it
    eventId,       \* the eventId / organizationId local
    syncContinuation, \* context.sync.continuation
    pc,            \* "idle", "fetching", "sleeping", "done", "failed"
    url,           \* the url local (its query pieces)
    attendees,     \* the accumulator local
    continuation,  \* the continuation local
    hasMore,       \* the hasMore local
    retryCount,    \* the retryCount local
    requests,      \* every request issued, in order
    responses,     \* the answer to each request, in order
    waits,         \* every setTimeout delay awaited, in seconds
    result,        \* the value the formula returned
    error,         \* the error the formula threw
    calls,         \* finished invocations of a sync chain
    cancelled      \* the caller's cancellation signal, if it was given

vars == <<api, formula, parameter, eventId, syncContinuation, pc, url, attendees, continuation,
          hasMore, retryCount, requests, responses, waits, result, error, calls, cancelled>>

invocation == <<formula, parameter, eventId, syncContinuation>>

locals == <<url, attendees, continuation, hasMore, retryCount>>

NoResult == [result |-> <<>>, continuation |-> Undefined]

\* No cancellation was signalled.
NotCancelled == [signalled |-> FALSE, fetches |-> 0]

NoError == [type |-> "", message |-> "", status |-> 0, detail |-> Undefined]

UserVisibleError(message, status, detail) ==
    [type |-> "UserVisibleError", message |-> message, status |-> status, detail |-> detail]

\* An exception that is no coda.UserVisibleError.
RuntimeError(type, message) ==
    [type |-> type, message |-> message, status |-> 0, detail |-> Undefined]

Init ==
    /\ api \in SourceApis
    /\ formula = ""
    /\ parameter = <<>>
    /\ eventId = <<>>
    /\ syncContinuation = Undefined
    /\ pc = "idle"
    /\ url = <<>>
    /\ attendees = <<>>
    /\ continuation = Undefined
    /\ hasMore = FALSE
    /\ retryCount = 0
    /\ requests = <<>>
    /\ responses = <<>>
    /\ waits = <<>>
    /\ result = NoResult
    /\ error = NoError
    /\ calls = <<>>
    /\ cancelled = NotCancelled

\* The request in flight and what the environment may answer to it.
InFlight == requests[Len(requests)]

Fetch(req) ==
    /\ Len(requests) < MaxFetches
    /\ requests' = Append(requests, req)
    /\ pc' = "fetching"

Answer(resp) == responses' = Append(responses, resp)

\* A finished invocation: the continuation it was given, what it returned or
\* threw, and how many requests had been issued when it ended.
Call(c, r, e) ==
    [given |-> c, result |-> r, error |-> e, fetches |-> Len(requests)]

\* The invocation that was given continuation c throws e.
Reject(c, e) ==
    /\ pc' = "failed"
    /\ error' = e
    /\ result' = NoResult
    /\ calls' = Append(calls, Call(c, NoResult, e))

Throw(e) == Reject(syncContinuation, e)

Return(r) ==
    /\ pc' = "done"
    /\ result' = r
    /\ error' = NoError
    /\ calls' = Append(calls, Call(syncContinuation, r, NoError))

\* ------------------------------------------- SyncRegistrations, full drain
\* coda-script.js:224
maxRetries == 3

\* coda-script.js:226-229: a fresh URL per iteration, the continuation set
\* as its only query parameter when the local is truthy.
DrainUrl(id, c) ==
    Request("events", id, "attendees",
            IF Truthy(c) THEN <<"?continuation=", encodeURIComponent(c)>> ELSE <<>>)

\* A bug: one retry too many.
DrainMayRetryInclusive(rc) == rc <= maxRetries

\* A bug: no budget at all, every 429 is retried.
DrainMayRetryAlways(rc) == TRUE

\* coda-script.js:236
DrainMayRetry(rc) == rc < maxRetries

\* coda-script.js:239-240: parseInt(String(retryAfterValue || "5"), 10)
ParseInt(s) == CASE s = "5" -> 5 [] s = "2" -> 2 [] OTHER -> NaN

\* A bug: the server's hint is ignored.
DrainRetryAfterSecondsFixed(h) == 5

DrainRetryAfterSeconds(h) == ParseInt(IF Truthy(h) THEN h ELSE "5")

\* A bug: the retry starts the listing over.
DrainOnRetryReset(l) == [l EXCEPT !.retryCount = @ + 1, !.continuation = Undefined]

\* coda-script.js:236-243: the retry branch touches the retry counter only.
DrainOnRetry(l) == [l EXCEPT !.retryCount = @ + 1]

\* A bug: the page's items replace the accumulator.
DrainOnPageReplaces(l, body) ==
    [l EXCEPT !.attendees = body.attendees.elems,
              !.hasMore = body.pagination.has_more_items,
              !.continuation = body.pagination.continuation]

\* coda-script.js:263-265
DrainOnPage(l, body) ==
    [l EXCEPT !.attendees = @ \o body.attendees.elems,
              !.hasMore = body.pagination.has_more_items,
              !.continuation = body.pagination.continuation]

\* A bug: no safety check.
DrainHaltsNever(hm, c) == FALSE

\* A bug: the loop is left after any page that announces more.
DrainHaltsOnMore(hm, c) == hm

\* coda-script.js:267
DrainHalts(hm, c) == hm /\ ~Truthy(c)

\* coda-script.js:281-289
DrainRow(attendee) == [id |-> attendee.id]

\* String(v) as a template literal does it: an absent value reads "undefined".
TemplateString(v) == IF v.present THEN v.chars ELSE <<"u", "n", "d", "e", "f", "i", "n", "e", "d">>

\* coda-script.js:283: `${first_name} ${last_name}`.trim()
DrainName(profile) ==
    Trim(TemplateString(profile.first_name) \o <<" ">> \o TemplateString(profile.last_name))

DrainNamedRow(attendee) == [id |-> attendee.id, name |-> DrainName(attendee.profile)]

\* new Date(s): the time value of s (here in seconds since 2024-01-02
\* 03:04:05 UTC, plus one), NaN when s is no date or is undefined.
DateParse(s) ==
    CASE s = "2024-01-02T03:04:05Z" -> 1
      [] s = "2024-01-02T04:04:05+01:00" -> 1
      [] OTHER -> NaN

\* Date.prototype.toISOString of a time value that is not NaN.
ToISOString(t) == CASE t = 1 -> "2024-01-02T03:04:05.000Z"

\* Date.prototype.toISOString throws a RangeError on an invalid date.
ThrowsRangeError(att) == \E i \in 1..Len(att) : DateParse(att[i].created) = NaN

\* coda-script.js:281-289
DrainFullRow(attendee) ==
    [id |-> attendee.id,
     name |-> DrainName(attendee.profile),
     registered |-> ToISOString(DateParse(attendee.created))]

DrainResult(att) ==
    [result |-> [i \in 1..Len(att) |-> DrainRow(att[i])], continuation |-> Undefined]

DrainLocals ==
    [attendees |-> attendees, continuation |-> continuation, hasMore |-> hasMore,
     retryCount |-> retryCount]

DrainSet(l) ==
    /\ attendees' = l.attendees
    /\ continuation' = l.continuation
    /\ hasMore' = l.hasMore
    /\ retryCount' = l.retryCount
    /\ url' = url

\* coda-script.js:218-234: the locals, then the first iteration up to its fetch.
DrainExecute(id) ==
    /\ pc = "idle"
    /\ formula' = "SyncRegistrationsDrain"
    /\ parameter' = id
    /\ eventId' = id
    /\ DrainSet([attendees |-> <<>>, continuation |-> Undefined, hasMore |-> TRUE,
                 retryCount |-> 0])
    /\ Fetch(DrainUrl(id, Undefined))
    /\ UNCHANGED <<api, cancelled, syncContinuation, responses, waits, result, error, calls>>

DrainAwaiting == formula = "SyncRegistrationsDrain" /\ pc = "fetching"

\* The error a rejected fetch raises: no coda.UserVisibleError.
FetchRejection == RuntimeError("Error", "network")

\* A bug: the catch wraps whatever it catches.
DrainCatchWrapsAll(e) ==
    UserVisibleError("Error fetching registrations from Eventbrite", 0,
                     IF e.message = "" THEN "Unknown error" ELSE e.message)

\* coda-script.js:272-278: the catch around the loop body rethrows a
\* UserVisibleError and wraps any other error with its message.
DrainCatch(e) ==
    IF e.type = "UserVisibleError" THEN e
    ELSE UserVisibleError("Error fetching registrations from Eventbrite", 0,
                          IF e.message = "" THEN "Unknown error" ELSE e.message)

\* coda-script.js:235-244: 429 with retries left, up to the setTimeout await.
DrainRateLimited ==
    /\ DrainAwaiting
    /\ \E resp \in RateLimitedResponses :
        /\ DrainMayRetry(retryCount)
        /\ Answer(resp)
        /\ DrainSet(DrainOnRetry(DrainLocals))
        /\ waits' = Append(waits, DrainRetryAfterSeconds(resp.retryAfter))
        /\ pc' = "sleeping"
    /\ UNCHANGED <<api, cancelled, invocation, requests, result, error, calls>>

\* coda-script.js:245-247 and 273-274
DrainRateLimitExceeded ==
    /\ DrainAwaiting
    /\ \E resp \in RateLimitedResponses :
        /\ ~DrainMayRetry(retryCount)
        /\ Answer(resp)
        /\ Throw(DrainCatch(UserVisibleError("Eventbrite API rate limit exceeded after multiple retries. Please try again later.", 0, Undefined)))
    /\ UNCHANGED <<api, cancelled, invocation, locals, requests, waits>>

\* coda-script.js:243 and 225-234: continue, the loop test, the next fetch.
DrainWake ==
    /\ formula = "SyncRegistrationsDrain"
    /\ pc = "sleeping"
    /\ hasMore
    /\ Fetch(DrainUrl(eventId, continuation))
    /\ UNCHANGED <<api, cancelled, invocation, locals, responses, waits,
                   result, error, calls>>

\* A bug: status 400 itself passes as a success.
DrainIsErrorAbove(status) == status > 400

\* coda-script.js:249: response.status >= 400
DrainIsError(status) == status >= 400

\* A bug: an error status ends the loop and the rows fetched so far are
\* returned as if the listing were complete.
DrainHardFailureBreaks ==
    /\ DrainAwaiting
    /\ \E resp \in Responses(api, InFlight) :
        /\ resp.status # 429
        /\ DrainIsError(resp.status)
        /\ Answer(resp)
        /\ Return(DrainResult(attendees))
    /\ UNCHANGED <<api, cancelled, invocation, locals, requests, waits>>

\* coda-script.js:249-255 and 273-274
DrainHardFailure ==
    /\ DrainAwaiting
    /\ \E resp \in Responses(api, InFlight) :
        /\ resp.status # 429
        /\ DrainIsError(resp.status)
        /\ Answer(resp)
        /\ Throw(DrainCatch(UserVisibleError("Eventbrite API error", resp.status,
                                           resp.body.error_description)))
    /\ UNCHANGED <<api, cancelled, invocation, locals, requests, waits>>

\* coda-script.js:257-262 and 273-274
DrainMalformed ==
    /\ DrainAwaiting
    /\ \E resp \in Responses(api, InFlight) :
        /\ ~DrainIsError(resp.status)
        /\ ~resp.body.pagination.present \/ resp.body.attendees.kind # "array"
        /\ Answer(resp)
        /\ Throw(DrainCatch(UserVisibleError(
                   IF ~resp.body.pagination.present
                   THEN "Invalid API response format: Missing pagination information."
                   ELSE "Invalid API response format: Attendees data is not an array.",
                   0, Undefined)))
    /\ UNCHANGED <<api, cancelled, invocation, locals, requests, waits>>

\* coda-script.js:263-271, then the loop test and either the next fetch
\* (225-234) or the return (280-290).
DrainPage ==
    /\ DrainAwaiting
    /\ \E resp \in Responses(api, InFlight) :
        /\ ~DrainIsError(resp.status)
        /\ resp.body.pagination.present
        /\ resp.body.attendees.kind = "array"
        /\ Answer(resp)
        /\ LET l == DrainOnPage(DrainLocals, resp.body) IN
            /\ DrainSet(l)
            /\ IF l.hasMore /\ ~DrainHalts(l.hasMore, l.continuation)
               THEN /\ Fetch(DrainUrl(eventId, l.continuation))
                    /\ UNCHANGED <<result, error, calls>>
               ELSE /\ Return(DrainResult(l.attendees))
                    /\ UNCHANGED requests
    /\ UNCHANGED <<api, cancelled, invocation, waits>>

\* coda-script.js:272-278: the fetch rejects with an error that is no
\* UserVisibleError.
DrainTransportError ==
    /\ DrainAwaiting
    /\ Answer(TransportError)
    /\ Throw(DrainCatch(FetchRejection))
    /\ UNCHANGED <<api, cancelled, invocation, locals, requests, waits>>

DrainNext ==
    \/ \E id \in ResourceIds : DrainExecute(id)
    \/ DrainRateLimited
    \/ DrainRateLimitExceeded
    \/ DrainWake
    \/ DrainHardFailure
    \/ DrainMalformed
    \/ DrainPage
    \/ DrainTransportError

\* ---------------------------------------------------- ListAttendeesForEvent
\* part_000:405: !eventId
IsEmptyString(s) == s = <<>>

\* part_000:414-416: the token is appended to the url local, which is
\* declared outside the loop and keeps what earlier iterations appended.
ListUrlAppend(u, c) ==
    IF Truthy(c) THEN u \o <<"?continuation=", encodeURIComponent(c)>> ELSE u

\* part_000:436
ListNextContinuation(pg) == IF pg.has_more_items THEN pg.continuation ELSE Undefined

\* part_000:428-434
ListRow(attendee) == [id |-> attendee.id]

ListConcat(att, elems) == att \o [i \in 1..Len(elems) |-> ListRow(elems[i])]

\* part_000:404-421: the check of the parameter, the locals, the first
\* iteration up to its fetch.
ListExecute(id) ==
    /\ pc = "idle"
    /\ formula' = "ListAttendeesForEvent"
    /\ parameter' = id
    /\ eventId' = id
    /\ syncContinuation' = syncContinuation
    /\ url' = <<>>
    /\ attendees' = <<>>
    /\ continuation' = Undefined
    /\ UNCHANGED <<api, cancelled, hasMore, retryCount, responses, waits>>
    /\ IF IsEmptyString(id)
       THEN /\ Throw(UserVisibleError("Event ID is required.", 0, Undefined))
            /\ UNCHANGED requests
       ELSE /\ Fetch(Request("events", id, "attendees", ListUrlAppend(<<>>, Undefined)))
            /\ UNCHANGED <<result, error, calls>>

ListAwaiting == formula = "ListAttendeesForEvent" /\ pc = "fetching"

\* part_000:422-426
ListMalformed ==
    /\ ListAwaiting
    /\ \E resp \in Responses(api, InFlight) :
        /\ resp.body.attendees.kind # "array"
        /\ Answer(resp)
        /\ Throw(UserVisibleError("Invalid API response format for attendees.", 0, Undefined))
    /\ UNCHANGED <<api, cancelled, invocation, locals, requests, waits>>

\* part_000:428-436 on a body without pagination: reading has_more_items of
\* undefined raises a TypeError after the rows were concatenated.
ListNoPagination ==
    /\ ListAwaiting
    /\ \E resp \in Responses(api, InFlight) :
        /\ resp.body.attendees.kind = "array"
        /\ ~resp.body.pagination.present
        /\ Answer(resp)
        /\ attendees' = ListConcat(attendees, resp.body.attendees.elems)
        /\ Throw(RuntimeError("TypeError", "Cannot read properties of undefined"))
    /\ UNCHANGED <<api, cancelled, invocation, url, continuation, hasMore, retryCount, requests, waits>>

\* part_000:422-437, then the next iteration up to its fetch (413-421) or
\* the return (439).
ListPage ==
    /\ ListAwaiting
    /\ \E resp \in Responses(api, InFlight) :
        /\ resp.body.attendees.kind = "array"
        /\ resp.body.pagination.present
        /\ Answer(resp)
        /\ LET att == ListConcat(attendees, resp.body.attendees.elems)
               c == ListNextContinuation(resp.body.pagination)
           IN /\ attendees' = att
              /\ continuation' = c
              /\ IF Truthy(c)
                 THEN /\ url' = ListUrlAppend(url, c)
                      /\ Fetch(Request("events", eventId, "attendees", url'))
                      /\ UNCHANGED <<result, error, calls>>
                 ELSE /\ url' = url
                      /\ Return([result |-> att, continuation |-> Undefined])
                      /\ UNCHANGED requests
    /\ UNCHANGED <<api, cancelled, invocation, hasMore, retryCount, waits>>

\* part_000:418-421: no try/catch, a rejected fetch propagates as it is.
ListTransportError ==
    /\ ListAwaiting
    /\ Answer(TransportError)
    /\ Throw(RuntimeError("Error", "network"))
    /\ UNCHANGED <<api, cancelled, invocation, locals, requests, waits>>

ListNext ==
    \/ \E id \in ResourceIds : ListExecute(id)
    \/ ListMalformed
    \/ ListNoPagination
    \/ ListPage
    \/ ListTransportError


\* ------------------------------------- sync formulas, one page a invocation
\* The first position at or after i where pattern p occurs in s followed by
\* a digit, 0 if there is none.
FindBeforeDigit(s, p) ==
    LET hit(i) == /\ i + Len(p) <= Len(s)
                  /\ SubSeq(s, i, i + Len(p) - 1) = p
                  /\ s[i + Len(p)] \in Digits
    IN IF \E i \in 1..Len(s) : hit(i)
       THEN CHOOSE i \in 1..Len(s) : hit(i) /\ \A k \in 1..(i - 1) : ~hit(k)
       ELSE 0

\* part_000:220: eventId.match(/eid=(\d+)/), its capture group or <<>>.
MatchEid(s) ==
    LET i == FindBeforeDigit(s, <<"e", "i", "d", "=">>) IN
    IF i = 0 THEN <<>> ELSE DigitRun(s, i + 4)

\* coda-script.js:463: eventId.match(/(\d+)/), its capture group or <<>>.
MatchDigits(s) ==
    LET i == FindBeforeDigit(s, <<>>) IN
    IF i = 0 THEN <<>> ELSE DigitRun(s, i)

\* part_000:212-229: the id the request is built with, <<>> when the
\* parameter is rejected.
SyncRegistrationsEventId(id) ==
    IF IsEmptyString(id) \/ Trim(id) = <<>> THEN <<>>
    ELSE IF TestNumeric(id) THEN id
    ELSE MatchEid(id)

\* A bug: an identifier without digits is used as it is.
SyncRegistrationsTsEventIdLenient(id) ==
    IF TestNumeric(id) \/ MatchDigits(id) = <<>> THEN id ELSE MatchDigits(id)

\* coda-script.js:462-472
SyncRegistrationsTsEventId(id) == IF TestNumeric(id) THEN id ELSE MatchDigits(id)

\* A bug: the continuation is never put in the request.
SyncQueryDropped(sc) == <<>>

\* part_000:231-234, coda-script.js:99-102 and 474-477
SyncQuery(sc) ==
    IF Truthy(sc) THEN <<"?continuation=", encodeURIComponent(sc)>> ELSE <<>>

\* A bug: the token is handed back whatever has_more_items says.
SyncContinuationAnyToken(pg, none) ==
    IF Truthy(pg.continuation) THEN pg.continuation ELSE none

\* part_000:261-264 (null), coda-script.js:123-125 (undefined)
SyncContinuation(pg, none) ==
    IF pg.has_more_items /\ Truthy(pg.continuation) THEN pg.continuation ELSE none

\* part_000:245-257
RegistrationRow(attendee) == [id |-> attendee.id]

UnnamedAttendee ==
    <<"U", "n", "n", "a", "m", "e", "d", " ", "A", "t", "t", "e", "n", "d", "e", "e">>

\* Array.prototype.filter(Boolean) on strings: absent and "" are dropped.
FilterBoolean(vs) == SelectSeq(vs, LAMBDA v : v.present /\ v.chars # <<>>)

\* Array.prototype.join(" ") of an array of at most two strings.
JoinSpace(vs) ==
    IF vs = <<>> THEN <<>>
    ELSE IF Len(vs) = 1 THEN vs[1].chars
    ELSE vs[1].chars \o <<" ">> \o vs[2].chars

\* part_000:247-251 and coda-script.js:490-494:
\* [first_name, last_name].filter(Boolean).join(" ").trim() || "Unnamed Attendee"
RegistrationName(profile) ==
    LET n == Trim(JoinSpace(FilterBoolean(<<profile.first_name, profile.last_name>>)))
    IN IF n = <<>> THEN UnnamedAttendee ELSE n

RegistrationNamedRow(attendee) ==
    [id |-> attendee.id, name |-> RegistrationName(attendee.profile)]

\* part_000:245-257 and coda-script.js:488-500
RegistrationFullRow(attendee) ==
    [id |-> attendee.id,
     name |-> RegistrationName(attendee.profile),
     registered |-> ToISOString(DateParse(attendee.created))]

\* coda-script.js:113-119
EventRow(ev) == [id |-> ev.id]

\* A bug: no placeholder, the title is copied as it is.
EventNameVerbatim(text) == text

\* coda-script.js:115 and part_000:173: ev.name.text || "Unnamed Event"
EventName(text) == IF Truthy(text) THEN text ELSE "Unnamed Event"

\* coda-script.js:113-119 and part_000:171-177; the ids are strings, which
\* String(ev.id) leaves as they are.
EventFullRow(ev) ==
    [id |-> ev.id, name |-> EventName(ev.name.text), start |-> ev.start.utc,
     end |-> ev.end.utc]

RegistrationFormulas == {"SyncRegistrations", "SyncRegistrationsTs"}

EventFormulas == {"SyncEvents", "SyncEventsMe"}

\* The host starts a sync without a continuation, and re-invokes the formula
\* with the same parameter and the continuation the last invocation returned.
Invoked(f, id, c) ==
    \/ pc = "idle" /\ c = Undefined
    \/ /\ pc = "done"
       /\ formula = f
       /\ id = parameter
       /\ Truthy(result.continuation)
       /\ c = result.continuation

SyncStart(f, id, c) ==
    /\ formula' = f
    /\ parameter' = id
    /\ syncContinuation' = c
    /\ UNCHANGED <<api, cancelled, locals, responses, waits>>

\* part_000:205-239
SyncRegistrationsRun(id, c) ==
    /\ SyncStart("SyncRegistrations", id, c)
    /\ eventId' = SyncRegistrationsEventId(id)
    /\ IF eventId' = <<>>
       THEN /\ Reject(c, UserVisibleError(IF IsEmptyString(id) \/ Trim(id) = <<>>
                                          THEN "Event ID is empty."
                                          ELSE "Invalid Event ID", 0, Undefined))
            /\ UNCHANGED requests
       ELSE /\ Fetch(Request("events", eventId', "attendees", SyncQuery(c)))
            /\ UNCHANGED <<result, error, calls>>

SyncRegistrationsExecute(id, c) == Invoked("SyncRegistrations", id, c) /\ SyncRegistrationsRun(id, c)

\* coda-script.js:454-482
SyncRegistrationsTsRun(id, c) ==
    /\ SyncStart("SyncRegistrationsTs", id, c)
    /\ eventId' = SyncRegistrationsTsEventId(id)
    /\ IF eventId' = <<>>
       THEN /\ Reject(c, UserVisibleError("Invalid Event ID", 0, Undefined))
            /\ UNCHANGED requests
       ELSE /\ Fetch(Request("events", eventId', "attendees", SyncQuery(c)))
            /\ UNCHANGED <<result, error, calls>>

SyncRegistrationsTsExecute(id, c) == Invoked("SyncRegistrationsTs", id, c) /\ SyncRegistrationsTsRun(id, c)

\* coda-script.js:94-107 (and part_000:461-474)
SyncEventsRun(id, c) ==
    /\ SyncStart("SyncEvents", id, c)
    /\ eventId' = id
    /\ IF IsEmptyString(id)
       THEN /\ Reject(c, UserVisibleError("Organization ID is required.", 0, Undefined))
            /\ UNCHANGED requests
       ELSE /\ Fetch(Request("organizations", id, "events", SyncQuery(c)))
            /\ UNCHANGED <<result, error, calls>>

SyncEventsExecute(id, c) == Invoked("SyncEvents", id, c) /\ SyncEventsRun(id, c)

\* part_000:155-166: the events of the current user, no parameter.
SyncEventsMeRun(c) ==
    /\ SyncStart("SyncEventsMe", <<>>, c)
    /\ eventId' = <<>>
    /\ Fetch(Request("users", Me, "events", SyncQuery(c)))
    /\ UNCHANGED <<result, error, calls>>

SyncEventsMeExecute(c) == Invoked("SyncEventsMe", <<>>, c) /\ SyncEventsMeRun(c)

SyncAwaiting == formula \in RegistrationFormulas \cup EventFormulas /\ pc = "fetching"

SyncItems(body) == IF formula \in RegistrationFormulas THEN body.attendees ELSE body.events

\* part_000:240-243, coda-script.js:108-111 and 483-486
SyncMalformed ==
    /\ SyncAwaiting
    /\ \E resp \in Responses(api, InFlight) :
        /\ ~resp.body.pagination.present \/ SyncItems(resp.body).kind # "array"
        /\ Answer(resp)
        /\ Throw(UserVisibleError("Invalid API response format.", 0, Undefined))
    /\ UNCHANGED <<api, cancelled, invocation, locals, requests, waits>>

\* part_000:245-265, coda-script.js:113-126 and 488-507
SyncPage ==
    /\ SyncAwaiting
    /\ \E resp \in Responses(api, InFlight) :
        /\ resp.body.pagination.present
        /\ SyncItems(resp.body).kind = "array"
        /\ Answer(resp)
        /\ LET elems == SyncItems(resp.body).elems IN
           Return([result |-> [i \in 1..Len(elems) |->
                                 IF formula \in RegistrationFormulas
                                 THEN RegistrationRow(elems[i]) ELSE EventRow(elems[i])],
                   continuation |-> SyncContinuation(resp.body.pagination,
                                       IF formula = "SyncEvents" THEN Undefined ELSE Null)])
    /\ UNCHANGED <<api, cancelled, invocation, locals, requests, waits>>

\* part_000:236-239: no try/catch, a rejected fetch propagates as it is.
SyncTransportError ==
    /\ SyncAwaiting
    /\ Answer(TransportError)
    /\ Throw(RuntimeError("Error", "network"))
    /\ UNCHANGED <<api, cancelled, invocation, locals, requests, waits>>

SyncNext ==
    \/ \E id \in ResourceIds, c \in {Undefined} \cup {Tok(i) : i \in 2..MaxPages} :
         \/ SyncRegistrationsExecute(id, c)
         \/ SyncRegistrationsTsExecute(id, c)
         \/ SyncEventsExecute(id, c)
    \/ \E c \in {Undefined} \cup {Tok(i) : i \in 2..MaxPages} : SyncEventsMeExecute(c)
    \/ SyncMalformed
    \/ SyncPage
    \/ SyncTransportError

\* The formulas that return one page and hand the continuation to the host.
SpecSync == Init /\ [][SyncNext]_vars

\* The invocations so far that were given the token of the one before.
Resumes == Cardinality({i \in 2..Len(calls) : calls[i].given = calls[i - 1].given})

\* The host invokes the formula again with the parameter and the
\* continuation of the invocation that just ended, whether it returned or
\* threw.
Again(f) ==
    /\ formula = f
    /\ pc \in {"done", "failed"}
    /\ Resumes < MaxResumes

SyncAgain ==
    \/ Again("SyncRegistrations") /\ SyncRegistrationsRun(parameter, syncContinuation)
    \/ Again("SyncRegistrationsTs") /\ SyncRegistrationsTsRun(parameter, syncContinuation)
    \/ Again("SyncEvents") /\ SyncEventsRun(parameter, syncContinuation)
    \/ Again("SyncEventsMe") /\ SyncEventsMeRun(syncContinuation)

ResumeNext == SyncNext \/ SyncAgain

\* A listing that does not change and ends properly, with items on every
\* page.
ResumeInit ==
    Init /\ api \in {SourceApi(N, MaxItems, FALSE, Undefined) : N \in 1..MaxPages}

\* The single-page formulas under a host that also repeats invocations.
SpecResume == ResumeInit /\ [][ResumeNext]_vars

Next == DrainNext \/ ListNext \/ SyncNext

Spec == Init /\ [][Next]_vars

\* The SyncRegistrations formulas started on every identifier: what each
\* makes of its parameter up to the first fetch.
IdInit == Init /\ api = SourceApi(1, 0, FALSE, Undefined)

IdNext ==
    /\ pc = "idle"
    /\ \E id \in Identifiers :
        \/ SyncRegistrationsExecute(id, Undefined)
        \/ SyncRegistrationsTsExecute(id, Undefined)

SpecId == IdInit /\ [][IdNext]_vars

\* The row mappings of the registrations syncs applied to one attendee of
\* every profile.
NameInit ==
    /\ api = SourceApi(1, 1, FALSE, Undefined)
    /\ formula = ""
    /\ parameter = ServedId
    /\ eventId = ServedId
    /\ syncContinuation = Undefined
    /\ pc = "idle"
    /\ url = <<>>
    /\ \E f, l \in NameValues : attendees = <<NamedAttendee(1, f, l)>>
    /\ continuation = Undefined
    /\ hasMore = FALSE
    /\ retryCount = 0
    /\ requests = <<>>
    /\ responses = <<>>
    /\ waits = <<>>
    /\ result = NoResult
    /\ error = NoError
    /\ calls = <<>>
    /\ cancelled = NotCancelled

Mapped(f, rows) ==
    /\ pc = "idle"
    /\ pc' = "done"
    /\ formula' = f
    /\ result' = [result |-> rows, continuation |-> Undefined]
    /\ UNCHANGED <<api, cancelled, parameter, eventId, syncContinuation, locals, requests, responses,
                   waits, error, calls>>

\* coda-script.js:280-290
DrainMap ==
    Mapped("SyncRegistrationsDrain",
           [i \in 1..Len(attendees) |-> DrainNamedRow(attendees[i])])

\* part_000:245-257 and coda-script.js:488-500
RegistrationMap ==
    \E f \in RegistrationFormulas :
        Mapped(f, [i \in 1..Len(attendees) |-> RegistrationNamedRow(attendees[i])])

NameNext == DrainMap \/ RegistrationMap

SpecName == NameInit /\ [][NameNext]_vars

\* The whole row mappings applied to the attendees of one page, whatever
\* ids and timestamps the items carry.
RowInit ==
    /\ api = SourceApi(1, 1, FALSE, Undefined)
    /\ formula = ""
    /\ parameter = ServedId
    /\ eventId = ServedId
    /\ syncContinuation = Undefined
    /\ pc = "idle"
    /\ url = <<>>
    /\ attendees \in AttendeeLists
    /\ continuation = Undefined
    /\ hasMore = FALSE
    /\ retryCount = 0
    /\ requests = <<>>
    /\ responses = <<>>
    /\ waits = <<>>
    /\ result = NoResult
    /\ error = NoError
    /\ calls = <<>>
    /\ cancelled = NotCancelled

\* The return statement of formula f: the map over the attendees, in which
\* toISOString may throw; nothing catches it.
ReturnsRows(f, rows) ==
    /\ pc = "idle"
    /\ formula' = f
    /\ IF ThrowsRangeError(attendees)
       THEN Throw(RuntimeError("RangeError", "Invalid time value"))
       ELSE Return([result |-> rows, continuation |-> Undefined])
    /\ UNCHANGED <<api, cancelled, parameter, eventId, syncContinuation, locals, requests, responses,
                   waits>>

\* coda-script.js:280-290, after the try/catch of 226-279
DrainReturn ==
    ReturnsRows("SyncRegistrationsDrain",
                [i \in 1..Len(attendees) |-> DrainFullRow(attendees[i])])

\* part_000:245-265 and coda-script.js:488-507
RegistrationReturn ==
    \E f \in RegistrationFormulas :
        ReturnsRows(f, [i \in 1..Len(attendees) |-> RegistrationFullRow(attendees[i])])

RowNext == DrainReturn \/ RegistrationReturn

SpecRow == RowInit /\ [][RowNext]_vars

\* The event mappings applied to a page of events that was just fetched.
EventInit ==
    /\ api = SourceApi(1, 1, FALSE, Undefined)
    /\ formula = ""
    /\ parameter = ServedId
    /\ eventId = ServedId
    /\ syncContinuation = Undefined
    /\ pc = "idle"
    /\ url = <<>>
    /\ attendees = <<>>
    /\ continuation = Undefined
    /\ hasMore = FALSE
    /\ retryCount = 0
    /\ requests = <<Request("organizations", ServedId, "events", <<>>)>>
    /\ \E evs \in EventLists :
         responses = <<Response(200, Undefined,
                                PageBody("events", Items(evs), Pagination(FALSE, Undefined)))>>
    /\ waits = <<>>
    /\ result = NoResult
    /\ error = NoError
    /\ calls = <<>>
    /\ cancelled = NotCancelled

\* data.events.map(...) and the return of formula f; none is the value f
\* returns for no continuation.
EventsReturn(f, none) ==
    /\ pc = "idle"
    /\ formula' = f
    /\ LET data == responses[1].body IN
       Return([result |-> [i \in 1..Len(data.events.elems) |->
                               EventFullRow(data.events.elems[i])],
               continuation |-> SyncContinuation(data.pagination, none)])
    /\ UNCHANGED <<api, cancelled, parameter, eventId, syncContinuation, locals, requests,
                   responses, waits>>

\* coda-script.js:113-126 (undefined) and part_000:171-184 (null)
EventNext == EventsReturn("SyncEvents", Undefined) \/ EventsReturn("SyncEventsMe", Null)

SpecEvent == EventInit /\ [][EventNext]_vars

\* The caller signals cancellation (or its timeout expires) while the drain
\* awaits a fetch or a backoff wait. execute is given no signal to listen
\* to and passes none to the fetcher or the timer (coda-script.js:230-244):
\* the signal changes nothing the formula reads.
Cancel ==
    /\ formula = "SyncRegistrationsDrain"
    /\ pc \in {"fetching", "sleeping"}
    /\ ~cancelled.signalled
    /\ cancelled' = [signalled |-> TRUE, fetches |-> Len(requests)]
    /\ UNCHANGED <<api, invocation, locals, pc, requests, responses, waits, result, error,
                   calls>>

CancelInit ==
    Init /\ api \in {SourceApi(N, MaxItems, FALSE, Undefined) : N \in 1..MaxPages}

CancelNext == DrainNext \/ Cancel

\* The SyncRegistrations drain under a caller that may cancel it.
SpecCancel == CancelInit /\ [][CancelNext]_vars

\* The full-drain formulas against listings of finitely many pages, each
\* page but the last announcing a fresh token. Every fetch is answered in
\* the end (by a page, a 429, a failure or a rejection) and every timer
\* fires: an awaiting formula is resumed.
LiveInit ==
    Init /\ api \in {SourceApi(N, MaxItems, FALSE, Undefined) : N \in 1..MaxPages}

LiveNext == DrainNext \/ ListNext

SpecLive == LiveInit /\ [][LiveNext]_vars /\ WF_vars(LiveNext)

\* ------------------------------------------------------------- properties
DrainFormulas == {"SyncRegistrationsDrain", "ListAttendeesForEvent"}

SyncFormulas == RegistrationFormulas \cup EventFormulas

None == {Null, Undefined}

RateLimitExceeded ==
    "Eventbrite API rate limit exceeded after multiple retries. Please try again later."

\* The listing ends properly: every page but the last announces the next
\* page's token, the last page announces no more items.
Drained(a) ==
    \A i \in 1..Len(a) :
        IF i < Len(a)
        THEN a[i].pagination.has_more_items /\ a[i].pagination.continuation = Tok(i + 1)
        ELSE ~a[i].pagination.has_more_items

RECURSIVE ItemsFrom(_, _)
\* The items of pages i..N of the listing, in source order.
ItemsFrom(a, i) == IF i > Len(a) THEN <<>> ELSE a[i].items \o ItemsFrom(a, i + 1)

\* The row of an item: its id is the item's id.
RowsOf(items) == [i \in 1..Len(items) |-> [id |-> items[i].id]]

\* A response that is a page: success status, pagination metadata, a list.
IsPage(resp) ==
    /\ resp.status = 200
    /\ resp.body.pagination.present
    /\ (resp.body.attendees.kind = "array" \/ resp.body.events.kind = "array")

PageElems(resp) ==
    IF resp.body.attendees.kind = "array" THEN resp.body.attendees.elems
    ELSE resp.body.events.elems

\* The Source API served every request (no throttling, failure or garbage).
AllServed == \A i \in 1..Len(responses) : responses[i] = Served(api, requests[i])

Finished == pc \in {"done", "failed"}

\* C1: a full-drain sync (SyncRegistrations with retry, ListAttendeesForEvent)
\* of a valid resource whose listing has N pages of K items, every page but
\* the last announcing the next token and the last announcing no more items,
\* returns exactly the N*K rows in source order with no continuation.
C1_FullDrainReturnsAllRows ==
    (formula \in DrainFormulas /\ parameter = ServedId /\ Drained(api) /\ AllServed
        /\ Finished)
    => /\ pc = "done"
       /\ result.result = RowsOf(ItemsFrom(api, 1))
       /\ result.continuation \in None

\* The same for the SyncRegistrations drain alone, throttled or not.
DrainReturnsAllRows ==
    (formula = "SyncRegistrationsDrain" /\ parameter = ServedId /\ Drained(api)
        /\ pc = "done")
    => /\ result.result = RowsOf(ItemsFrom(api, 1))
       /\ result.continuation \in None

\* C2: against a two-page listing (page 1 announces token1, page 2 announces
\* no more items) the first single-page sync, given no continuation, returns
\* page 1's rows and token1, and the sync that follows, given token1, returns
\* page 2's rows and no continuation.
C2_SinglePageChain ==
    (formula \in SyncFormulas /\ Len(api) = 2 /\ Drained(api))
    => \A i \in 1..Len(calls) :
         (i <= Len(responses) /\ responses[i] = Served(api, requests[i]))
         => /\ calls[i].error = NoError
            /\ calls[i].result.result = RowsOf(api[i].items)
            /\ calls[i].given = (IF i = 1 THEN Undefined ELSE Tok(2))
            /\ IF i = 1 THEN calls[i].result.continuation = Tok(2)
               ELSE calls[i].result.continuation \in None

C2_Witness ==
    /\ formula = "SyncRegistrations"
    /\ Len(api) = 2 /\ Drained(api) /\ Len(api[1].items) > 0
    /\ AllServed
    /\ Len(calls) = 2
    /\ calls[2].error = NoError

\* The number of 429 answers at the end of the answers so far.
TrailingRateLimited ==
    LET n == Len(responses)
        others == {j \in 1..n : responses[j].status # 429}
    IN n - (IF others = {} THEN 0 ELSE CHOOSE j \in others : \A k \in others : k <= j)

\* The number of 429 answers among the first r answers.
Count429(r) == Cardinality({j \in 1..r : responses[j].status = 429})

\* The 429 answer r was followed by a wait and a retry.
Retried(r) ==
    /\ responses[r].status = 429
    /\ r < Len(requests) \/ pc = "sleeping"

\* C3: every page of a full-drain sync has its own budget of 3 retries, so
\* the sync fails with RateLimitExceeded only after more than 3 consecutive
\* RateLimited answers to the same page.
C3_FreshBudgetPerPage ==
    (formula = "SyncRegistrationsDrain" /\ pc = "failed"
        /\ error.message = RateLimitExceeded)
    => TrailingRateLimited > 3

\* C4: once the same page was answered RateLimited 4 times in a row, the
\* sync has failed with RateLimitExceeded after exactly 4 fetches of that
\* page, and no 5th fetch is issued.
C4_RateLimitExhaustion ==
    (formula = "SyncRegistrationsDrain" /\ TrailingRateLimited >= 4)
    => /\ pc = "failed"
       /\ error.type = "UserVisibleError"
       /\ error.message = RateLimitExceeded
       /\ TrailingRateLimited = 4
       /\ Len(requests) = Len(responses)
       /\ \A j \in (Len(requests) - 3)..Len(requests) : requests[j] = requests[Len(requests)]

C4_Witness ==
    /\ formula = "SyncRegistrationsDrain"
    /\ TrailingRateLimited = 4
    /\ Len(requests) = 5
    /\ pc = "failed"

C6_ContinuationInvariant ==
    \A i \in 1..Len(calls) :
        calls[i].error = NoError
        => LET pg == responses[calls[i].fetches].body.pagination
               c == calls[i].result.continuation
           IN IF pg.has_more_items /\ pg.continuation \notin {Undefined, Null, ""}
              THEN IF formula \in SyncFormulas THEN c = pg.continuation ELSE c \in None
              ELSE c \in None

C6_Witness ==
    /\ formula = "SyncEvents"
    /\ Len(calls) = 2
    /\ calls[1].result.continuation = Tok(2)
    /\ ~responses[2].body.pagination.has_more_items
    /\ responses[2].body.pagination.continuation = Tok(2)
    /\ calls[2].error = NoError
    /\ calls[2].result.continuation \in None

\* C7: within one full-drain sync, once a page fetched with a token has
\* succeeded, no later fetch is issued with that token.
C7_NoTokenTwice ==
    formula \in DrainFormulas
    => \A i, j \in 1..Len(requests) :
         (i < j /\ i <= Len(responses) /\ IsPage(responses[i]) /\ requests[i].query # <<>>)
         => ContinuationParams(requests[j]) # ContinuationParams(requests[i])

RECURSIVE ElemsOfPages(_, _)
\* The items of the page answers first..last, in order.
ElemsOfPages(first, last) ==
    IF first > last THEN <<>>
    ELSE (IF IsPage(responses[first]) THEN PageElems(responses[first]) ELSE <<>>)
            \o ElemsOfPages(first + 1, last)

\* The first request of the invocation that ended last.
LastCallFirst == IF Len(calls) <= 1 THEN 1 ELSE calls[Len(calls) - 1].fetches + 1

\* C8: a page that reports has_more_items = true with an empty or absent
\* token ends the sync: no further fetch, a normal return with no
\* continuation and the rows accumulated up to and including that page.
C8_ProtocolViolationGuard ==
    \A r \in 1..Len(responses) :
        (/\ IsPage(responses[r])
         /\ responses[r].body.pagination.has_more_items
         /\ responses[r].body.pagination.continuation \in {Undefined, ""})
        => /\ r = Len(requests)
           /\ pc = "done"
           /\ result.continuation \in None
           /\ result.result = RowsOf(ElemsOfPages(LastCallFirst, r))

C8_Witness ==
    /\ formula = "SyncRegistrationsDrain"
    /\ pc = "done"
    /\ Len(responses) = 2
    /\ IsPage(responses[2])
    /\ responses[2].body.pagination.has_more_items
    /\ responses[2].body.pagination.continuation = ""
    /\ Len(result.result) = 4

\* The request j carries the token of the page that succeeded last before
\* it, as its only continuation parameter, or none if no page succeeded.
HandsBack(j) ==
    LET pages == {i \in 1..(j - 1) : IsPage(responses[i])}
        ps == ContinuationParams(requests[j])
    IN IF pages = {} THEN ps = <<>>
       ELSE LET i == CHOOSE i \in pages : \A k \in pages : k <= i IN
            /\ Len(ps) = 1
            /\ Len(ps[1]) = 1
            /\ decodeURIComponent(ps[1][1]) = responses[i].body.pagination.continuation

\* C9: in a full-drain sync the first request carries no continuation
\* parameter and every later request carries exactly one, whose value is the
\* token of the page that succeeded last, also for the 3rd and later pages.
C9_TokenHandBack ==
    formula \in DrainFormulas => \A j \in 1..Len(requests) : HandsBack(j)

\* The same for the SyncRegistrations drain alone.
DrainTokenHandBack ==
    formula = "SyncRegistrationsDrain" => \A j \in 1..Len(requests) : HandsBack(j)

\* C10: a RateLimited answer changes nothing but the retry counter: the
\* accumulator, the continuation and hasMore stay as they were, and the
\* retry repeats the request that was rate-limited.
C10_RateLimitedLeavesProgress ==
    [][/\ (/\ formula = "SyncRegistrationsDrain"
           /\ pc = "fetching"
           /\ Len(responses') = Len(responses) + 1
           /\ responses'[Len(responses')].status = 429)
          => /\ attendees' = attendees
             /\ continuation' = continuation
             /\ hasMore' = hasMore
             /\ requests' = requests
             /\ pc' = "sleeping" => retryCount' = retryCount + 1
       /\ (formula = "SyncRegistrationsDrain" /\ pc = "sleeping" /\ pc' = "fetching")
          => /\ requests' = Append(requests, requests[Len(requests)])
             /\ attendees' = attendees
             /\ continuation' = continuation
             /\ retryCount' = retryCount]_vars

C10_Witness ==
    /\ formula = "SyncRegistrationsDrain"
    /\ pc = "fetching"
    /\ Len(requests) = Len(responses) + 1
    /\ Len(responses) >= 2
    /\ responses[Len(responses)].status = 429
    /\ requests[Len(requests)].query # <<>>
    /\ attendees # <<>>

\* ------------------------------------------------------------ hard failures
\* The answer r is a hard failure: an error status that is not 429.
HardFailure(r) == responses[r].status >= 400 /\ responses[r].status # 429

\* C11: in the SyncRegistrations drain an answer with an error status other
\* than 429 ends the sync at once, however many retries remain: it is the
\* last answer of the last request, the sync has failed with the
\* "Eventbrite API error" that carries that status, and no row is returned.
C11_HardFailureNeverRetried ==
    formula = "SyncRegistrationsDrain"
    => \A r \in 1..Len(responses) :
         HardFailure(r)
         => /\ r = Len(requests)
            /\ pc = "failed"
            /\ error.type = "UserVisibleError"
            /\ error.message = "Eventbrite API error"
            /\ error.status = responses[r].status
            /\ result = NoResult
            /\ calls[Len(calls)].result = NoResult

\* A 500 on a later page, after rows were accumulated and with one retry
\* spent of three.
C11_Witness ==
    /\ formula = "SyncRegistrationsDrain"
    /\ Len(responses) >= 3
    /\ HardFailure(Len(responses))
    /\ responses[Len(responses)].status = 500
    /\ attendees # <<>>
    /\ retryCount = 1
    /\ pc = "failed"

\* ------------------------------------------------------ malformed responses
\* The answer r has a success status and a body that lacks the pagination
\* metadata, or whose item list is missing or no list.
Malformed(r) ==
    /\ responses[r].status = 200
    /\ \/ ~responses[r].body.pagination.present
       \/ (IF requests[r].listing = "attendees" THEN responses[r].body.attendees
           ELSE responses[r].body.events).kind # "array"

ProtocolErrors ==
    {"Invalid API response format.",
     "Invalid API response format for attendees.",
     "Invalid API response format: Missing pagination information.",
     "Invalid API response format: Attendees data is not an array."}

\* The answer r ended the sync with a user-visible format error: no retry,
\* no further fetch, no rows.
FailsAsProtocolError(r) ==
    /\ r = Len(requests)
    /\ pc = "failed"
    /\ error.type = "UserVisibleError"
    /\ error.message \in ProtocolErrors
    /\ result = NoResult
    /\ calls[Len(calls)].result = NoResult

\* C12: in every sync variant a malformed answer makes the sync fail at once
\* with a user-visible ProtocolError: no retry, no further fetch, no rows.
C12_MalformedIsProtocolError ==
    \A r \in 1..Len(responses) : Malformed(r) => FailsAsProtocolError(r)

\* The same for every formula but ListAttendeesForEvent.
MalformedIsProtocolErrorButList ==
    formula # "ListAttendeesForEvent"
    => \A r \in 1..Len(responses) : Malformed(r) => FailsAsProtocolError(r)

\* ----------------------------------------------------------- retry hint
\* The wait the retry hint asks for: the header's integer when it parses,
\* 5 seconds when the header is absent or does not parse.
HintedSeconds(h) == IF h = "2" THEN 2 ELSE 5

\* C13: the wait before a retry is the integer value of the Retry-After
\* header when it parses as an integer number of seconds, and exactly 5
\* seconds both when the header is absent and when it does not parse.
C13_RetryHintDefault ==
    formula = "SyncRegistrationsDrain"
    => \A r \in 1..Len(responses) :
         Retried(r) => waits[Count429(r)] = HintedSeconds(responses[r].retryAfter)

\* The same when no header is unparseable.
RetryHintWhenParseable ==
    formula = "SyncRegistrationsDrain"
    => \A r \in 1..Len(responses) :
         (Retried(r) /\ responses[r].retryAfter # "abc")
         => waits[Count429(r)] = HintedSeconds(responses[r].retryAfter)

\* ------------------------------------------------------------- identifiers
\* The formulas that take a resource identifier.
IdentifiedFormulas ==
    {"SyncRegistrationsDrain", "ListAttendeesForEvent", "SyncRegistrations",
     "SyncRegistrationsTs", "SyncEvents"}

InvalidArguments ==
    {"Event ID is empty.", "Event ID is required.", "Invalid Event ID",
     "Organization ID is required."}

\* The invocation was refused for its argument before any fetch.
FailsAsInvalidArgument ==
    /\ requests = <<>>
    /\ pc = "failed"
    /\ error.type = "UserVisibleError"
    /\ error.message \in InvalidArguments

\* C14: in every sync variant an empty resource identifier makes the sync
\* fail with InvalidArgument before any fetch is issued.
C14_EmptyIdentifierRejected ==
    (formula \in IdentifiedFormulas /\ parameter = <<>>) => FailsAsInvalidArgument

\* The same for every formula but the SyncRegistrations drain.
EmptyIdentifierRejectedButDrain ==
    (formula \in IdentifiedFormulas \ {"SyncRegistrationsDrain"} /\ parameter = <<>>)
    => FailsAsInvalidArgument

\* "eid=" and a digit stand at position i of s.
EidAt(s, i) ==
    /\ i + 4 <= Len(s)
    /\ SubSeq(s, i, i + 3) = <<"e", "i", "d", "=">>
    /\ s[i + 4] \in Digits

\* Positions i..j of s are a whole run of digits.
RunAt(s, i, j) ==
    /\ i <= j /\ j <= Len(s)
    /\ \A k \in i..j : s[k] \in Digits
    /\ j = Len(s) \/ s[j + 1] \notin Digits

\* The formula went on to fetch the resource x.
Uses(x) == pc = "fetching" /\ Len(requests) = 1 /\ requests[1].id = x

\* The extraction of formula f is as claimed: an all-digit identifier is
\* used unchanged, and of any other identifier with an eid=<digits>
\* parameter exactly the digits of that parameter are used.
ExtractsEid(f) ==
    formula = f
    => /\ TestNumeric(parameter) => Uses(parameter)
       /\ ~TestNumeric(parameter)
          => \A i, j \in 1..Len(parameter) :
               (EidAt(parameter, i) /\ RunAt(parameter, i + 4, j)
                    /\ \A k \in 1..(i - 1) : ~EidAt(parameter, k))
               => Uses(SubSeq(parameter, i + 4, j))

\* C15: for every identifier that is not a bare digit string and contains an
\* eid=<digits> query parameter, the id used is exactly that parameter's
\* digit run, also when other digits occur earlier; a bare all-digit
\* identifier is used unchanged.
C15_IdentifierExtraction ==
    ExtractsEid("SyncRegistrations") /\ ExtractsEid("SyncRegistrationsTs")

\* The same for the variant that matches /eid=(\d+)/ alone.
EidExtraction == ExtractsEid("SyncRegistrations")

\* C16: for every non-empty identifier that contains no digit the
\* SyncRegistrations formulas fail with InvalidArgument ("Invalid Event ID")
\* and issue no fetch.
C16_UnparseableIdentifier ==
    (formula \in RegistrationFormulas /\ parameter # <<>>
        /\ \A i \in 1..Len(parameter) : parameter[i] \notin Digits)
    => /\ FailsAsInvalidArgument
       /\ error.message = "Invalid Event ID"
       /\ result = NoResult

C16_Witness ==
    /\ formula = "SyncRegistrationsTs"
    /\ parameter = <<"e", "i", "d", "=">>
    /\ pc = "failed"
    /\ requests = <<>>

\* ----------------------------------------------------------- display name
\* The display name of a profile: its non-empty names joined by one space
\* and trimmed, the placeholder when nothing is left.
DisplayName(profile) ==
    LET part(v) == IF v.present THEN v.chars ELSE <<>>
        f == part(profile.first_name)
        l == part(profile.last_name)
        n == Trim(IF f = <<>> THEN l ELSE IF l = <<>> THEN f ELSE f \o <<" ">> \o l)
    IN IF n = <<>> THEN UnnamedAttendee ELSE n

NamesAsClaimed ==
    pc = "done"
    => \A i \in 1..Len(attendees) : result.result[i].name = DisplayName(attendees[i].profile)

\* C17: in every registrations variant a row's name is the attendee's first
\* and last name joined by one space and trimmed; the placeholder when both
\* are empty or absent; exactly the last name (no leading space, no
\* "undefined") when only the last name is there.
C17_RegistrationDisplayName == formula # "" => NamesAsClaimed

\* The same for the single-page SyncRegistrations formulas alone.
SyncDisplayName == formula \in RegistrationFormulas => NamesAsClaimed

\* -------------------------------------------------------- partial success
\* The answer r made its invocation fail: it is no page and was not retried.
Failing(r) == ~IsPage(responses[r]) /\ ~Retried(r)

\* C18: when a full-drain sync fails on a later page after earlier pages
\* succeeded, the caller receives the error alone and none of the rows of
\* the earlier pages.
C18_NoPartialSuccess ==
    formula \in DrainFormulas
    => \A r \in 2..Len(responses) :
         (Failing(r) /\ \E k \in 1..(r - 1) : IsPage(responses[k]))
         => /\ r = Len(requests)
            /\ pc = "failed"
            /\ error # NoError
            /\ result = NoResult
            /\ calls[Len(calls)].result = NoResult
            /\ calls[Len(calls)].error = error

\* Two pages with rows were accumulated, then the third fetch failed.
C18_Witness ==
    /\ formula = "SyncRegistrationsDrain"
    /\ Len(responses) = 3
    /\ IsPage(responses[1]) /\ IsPage(responses[2])
    /\ Len(attendees) = 2 * MaxItems
    /\ HardFailure(3)
    /\ pc = "failed"
    /\ result.result = <<>>

\* ------------------------------------------------------------- resumption
Succeeded(j) == calls[j].error = NoError

\* The page a continuation token stands for.
PageOf(c) == IF c = Undefined THEN 1 ELSE CHOOSE i \in 2..Len(api) : Tok(i) = c

Ids(rows) == {rows[i].id : i \in 1..Len(rows)}

\* C19: re-invoking a single-page sync with the same continuation token
\* against an unchanged Source API, also after a failed invocation, returns
\* the same rows and the same continuation as before (those of the token's
\* page), and the invocations of a chain that were given different tokens
\* return no source item twice.
C19_IdempotentResumption ==
    (formula \in SyncFormulas /\ Drained(api))
    => /\ \A j \in 1..Len(calls) :
            Succeeded(j)
            => LET p == PageOf(calls[j].given) IN
               /\ calls[j].result.result = RowsOf(api[p].items)
               /\ IF p < Len(api) THEN calls[j].result.continuation = Tok(p + 1)
                  ELSE calls[j].result.continuation \in None
       /\ \A i, j \in 1..Len(calls) :
            (i < j /\ Succeeded(i) /\ Succeeded(j))
            => IF calls[i].given = calls[j].given
               THEN calls[i].result = calls[j].result
               ELSE Ids(calls[i].result.result) \cap Ids(calls[j].result.result) = {}

\* Page 1 is synced, the invocation given its token fails, and the same
\* invocation made again returns page 2.
C19_Witness ==
    /\ formula = "SyncRegistrations"
    /\ Len(calls) = 3
    /\ Succeeded(1) /\ ~Succeeded(2) /\ Succeeded(3)
    /\ calls[1].result.continuation = Tok(2)
    /\ calls[2].given = Tok(2) /\ calls[3].given = Tok(2)
    /\ calls[3].result.result = RowsOf(api[2].items)
    /\ calls[3].result.result # <<>>

\* Page 1 is synced twice with no continuation; the rows are the same.
ResumedAfterSuccess ==
    /\ formula = "SyncEvents"
    /\ Len(calls) = 2
    /\ Succeeded(1) /\ Succeeded(2)
    /\ calls[1].given = calls[2].given

\* ------------------------------------------- rate limit, single-page mode
\* C20: a single-page sync whose fetch is answered 429 with fewer than 3
\* retries spent waits and retries the same token instead of failing, and
\* fails with RateLimitExceeded only once the budget is spent.
C20_SinglePageRateLimitRetry ==
    (formula \in SyncFormulas /\ responses # <<>>
        /\ Len(responses) = Len(requests)
        /\ responses[Len(responses)].status = 429)
    => /\ Len(waits) < maxRetries => pc # "failed"
       /\ pc = "failed" => error.message = RateLimitExceeded

\* --------------------------------------------------- authentication failures
\* The answer r refuses the credential.
AuthFailure(r) == responses[r].status \in {401, 403}

\* The kind of the error a failed status is reported with.
SourceApiError == "Eventbrite API error"

\* C21: in the SyncRegistrations drain a 401 or 403 answer makes the sync
\* fail at once, without retry, with an error of a kind of its own
\* (AuthError) and not the generic SourceApiError.
C21_AuthFailureDistinct ==
    formula = "SyncRegistrationsDrain"
    => \A r \in 1..Len(responses) :
         AuthFailure(r)
         => /\ r = Len(requests)
            /\ pc = "failed"
            /\ result = NoResult
            /\ error.type = "UserVisibleError"
            /\ error.message # SourceApiError

\* The same without the kind: the failure is immediate and user-visible.
AuthFailureImmediate ==
    formula = "SyncRegistrationsDrain"
    => \A r \in 1..Len(responses) :
         AuthFailure(r)
         => /\ r = Len(requests)
            /\ pc = "failed"
            /\ result = NoResult
            /\ error.type = "UserVisibleError"

\* ---------------------------------------------------------------- row ids
\* The timestamps that are dates.
Parseable == {"2024-01-02T03:04:05Z", "2024-01-02T04:04:05+01:00"}

HasUnparseable == \E i \in 1..Len(attendees) : attendees[i].created \notin Parseable

\* C22: when a fetched page holds an item without an id (and nothing else
\* is wrong with the page), the sync fails with ProtocolError instead of
\* returning a row whose id is absent.
C22_RowMissingId ==
    (formula # "" /\ ~HasUnparseable
        /\ \E i \in 1..Len(attendees) : attendees[i].id = Undefined)
    => /\ pc = "failed"
       /\ error.type = "UserVisibleError"
       /\ error.message \in ProtocolErrors
       /\ result = NoResult

\* ------------------------------------------------------------- timestamps
\* C23: when an attendee's creation timestamp cannot be parsed, the sync
\* fails with the user-visible ProtocolError and returns no rows; the value
\* is not passed into a row and the failure is no untyped runtime exception.
C23_UnparseableTimestamp ==
    (formula # "" /\ HasUnparseable)
    => /\ pc = "failed"
       /\ error.type = "UserVisibleError"
       /\ error.message \in ProtocolErrors
       /\ result = NoResult

\* What does hold: the sync fails and returns no rows.
UnparseableTimestampFails ==
    (formula # "" /\ HasUnparseable) => (pc = "failed" /\ result = NoResult)

\* ----------------------------------------------------------- cancellation
Cancelled == "Cancelled"

\* C24: once the caller has signalled cancellation during a fetch or a
\* backoff wait, the sync issues no further fetch, does not return, and
\* fails with Cancelled and none of the rows accumulated so far.
C24_Cancellation ==
    cancelled.signalled
    => /\ Len(requests) = cancelled.fetches
       /\ pc # "done"
       /\ result = NoResult
       /\ pc = "failed" => error.message = Cancelled

\* ----------------------------------------------------- sequential fetching
\* The fetches that were issued and not answered yet.
Unanswered == Len(requests) - Len(responses)

\* C25: in the SyncRegistrations drain at most one fetch is in flight at any
\* time, none while a backoff wait is pending, and while the request for a
\* further page is in flight every earlier page was answered and validated,
\* its items are in the accumulator and every wait asked for is over.
C25_SequentialFetching ==
    formula = "SyncRegistrationsDrain"
    => /\ Unanswered = (IF pc = "fetching" THEN 1 ELSE 0)
       /\ pc \in {"fetching", "sleeping"} => Len(waits) = Count429(Len(responses))
       /\ pc = "fetching"
          => /\ attendees = ElemsOfPages(1, Len(responses))
             /\ \A r \in 1..Len(responses) : IsPage(responses[r]) \/ Retried(r)

\* The third page is being fetched after a wait; two pages are accumulated.
C25_Witness ==
    /\ formula = "SyncRegistrationsDrain"
    /\ pc = "fetching"
    /\ Len(requests) = 4
    /\ Len(waits) = 1
    /\ Len(attendees) = 2 * MaxItems

\* ------------------------------------------------------------ termination
\* C26: against a listing of finitely many pages with fresh tokens, whose
\* requests may each be answered 429, a full-drain sync that has started
\* eventually returns or fails, having issued at most one fetch a page and
\* one a retry.
C26_FullDrainTerminates ==
    (formula \in DrainFormulas)
        ~> (Finished /\ Len(requests) <= Len(api) + maxRetries)

\* The drain returned after every page and three retries.
C26_Witness ==
    /\ formula = "SyncRegistrationsDrain"
    /\ pc = "done"
    /\ Len(api) = MaxPages
    /\ Len(waits) = maxRetries
    /\ Len(requests) = Len(api) + maxRetries

\* -------------------------------------------------------- mode equivalence
RECURSIVE RowsOfCalls(_)
\* The rows the first j invocations of the chain returned, in order.
RowsOfCalls(j) == IF j = 0 THEN <<>> ELSE RowsOfCalls(j - 1) \o calls[j].result.result

\* The single-page chain has come to its end.
ChainEnded == pc = "done" /\ result.continuation \in None

\* C27: against a listing of finitely many pages with fresh tokens and no
\* rate limiting, the chain of single-page SyncRegistrations invocations,
\* each given the continuation the one before returned, and one
\* SyncRegistrations drain deliver the same rows in the same order with the
\* same number of fetches: the items of the listing in source order, one
\* fetch a page.
C27_ModeEquivalence ==
    (parameter = ServedId /\ Drained(api) /\ AllServed)
    => /\ (formula = "SyncRegistrationsDrain" /\ pc = "done")
          => /\ result.result = RowsOf(ItemsFrom(api, 1))
             /\ Len(requests) = Len(api)
       /\ (formula \in RegistrationFormulas /\ ChainEnded)
          => /\ RowsOfCalls(Len(calls)) = RowsOf(ItemsFrom(api, 1))
             /\ Len(requests) = Len(api)
             /\ Len(calls) = Len(api)

\* A chain of three invocations has synced a three-page listing.
C27_Witness ==
    /\ formula = "SyncRegistrations"
    /\ parameter = ServedId /\ Drained(api) /\ AllServed
    /\ Len(api) = MaxPages /\ Len(api[1].items) = MaxItems
    /\ ChainEnded
    /\ Len(calls) = MaxPages
    /\ Len(RowsOfCalls(Len(calls))) = MaxPages * MaxItems

\* The drain has synced the same listing.
DrainedListing ==
    /\ formula = "SyncRegistrationsDrain"
    /\ parameter = ServedId /\ Drained(api) /\ AllServed
    /\ Len(api) = MaxPages /\ Len(api[1].items) = MaxItems
    /\ pc = "done"

\* ----------------------------------------------------- transport exceptions
\* The fetch of request r was rejected.
Rejected(r) == responses[r].status = 0

\* C28: in the SyncRegistrations drain a fetch that raises an error that is
\* not user-visible fails the sync with a user-visible error that carries
\* the raised error's message, without retry and without a result; an
\* error that is user-visible already reaches the caller as it was thrown.
C28_TransportException ==
    formula = "SyncRegistrationsDrain"
    => \A r \in 1..Len(responses) :
         /\ Rejected(r)
            => /\ r = Len(requests)
               /\ pc = "failed"
               /\ result = NoResult
               /\ error.type = "UserVisibleError"
               /\ error.message = "Error fetching registrations from Eventbrite"
               /\ error.detail = FetchRejection.message
         /\ HardFailure(r)
            => error = UserVisibleError(SourceApiError, responses[r].status,
                                        responses[r].body.error_description)
         /\ Malformed(r) => error.message \in ProtocolErrors
         /\ (responses[r].status = 429 /\ ~Retried(r)) => error.message = RateLimitExceeded

\* The fetch of a later page was rejected after a retry, rows accumulated.
C28_Witness ==
    /\ formula = "SyncRegistrationsDrain"
    /\ Len(responses) >= 3
    /\ Rejected(Len(responses))
    /\ attendees # <<>>
    /\ retryCount > 0
    /\ pc = "failed"
    /\ error.detail = "network"

\* -------------------------------------------------------------- event rows
\* C29: every event of a page maps to a row whose name is the event's
\* title text, or the placeholder when the text is empty, and whose start
\* and end are the event's UTC fields as they are; the rows are as many as
\* the page's events and in their order.
C29_EventRowMapping ==
    (formula \in EventFormulas /\ pc = "done")
    => LET evs == responses[1].body.events.elems
           rows == result.result
       IN /\ Len(rows) = Len(evs)
          /\ \A i \in 1..Len(evs) :
               /\ evs[i].name.text \notin {"", Undefined} => rows[i].name = evs[i].name.text
               /\ evs[i].name.text = "" => rows[i].name = "Unnamed Event"
               /\ rows[i].start = evs[i].start.utc
               /\ rows[i].end = evs[i].end.utc
               /\ rows[i].id = evs[i].id

\* A page of an event without a title and one with a title, with different
\* times, was mapped.
C29_Witness ==
    /\ formula = "SyncEvents"
    /\ pc = "done"
    /\ Len(result.result) = 2
    /\ responses[1].body.events.elems[1].name.text = ""
    /\ result.result[1].name = "Unnamed Event"
    /\ result.result[2].name = "Expo"
    /\ result.result[1].start # result.result[2].start
====
